---- MODULE Spec2Model ----
(***************************************************************************)
(* Model of scripts/utilities/migrate-spec-structure.py: the SpecMigrator  *)
(* pipeline (main, run, create_backup, load_all_specs,                     *)
(* build_hierarchy_map, get_new_path, update_spec_content,                 *)
(* migrate_context_files, perform_migration, save_migration_log,           *)
(* create_rollback_script).                                                *)
(*                                                                         *)
(* Python strings are sequences of one-character strings, so that          *)
(* formatting (f"E{n:02d}", f"{prefix}99_{old_id}"), str(), isdigit(),     *)
(* int() and the regular-expression rewriting are computed, not assumed.   *)
(***************************************************************************)
EXTENDS Integers, Sequences, FiniteSets, TLC

(***************************************************************************)
(* Bounds of the model.                                                    *)
(***************************************************************************)
\* number of markdown files of the scanned tree in the pipeline runs
MaxFiles == 2
\* number of nodes of the table in the runs of build_hierarchy_map alone
MaxNodes == 4
\* iterations of the while loop of get_new_path that the model follows
MaxWalk == 5
\* length of the generated bodies in the runs of the body rewriting alone
MaxBody == 5
\* number of documents of the chains of parent links
MaxChain == 5

(***************************************************************************)
(* Strings.                                                                *)
(***************************************************************************)
Digits == <<"0", "1", "2", "3", "4", "5", "6", "7", "8", "9">>

DigitSet == {Digits[i] : i \in 1..10}

Letters == {"a", "b", "c", "d", "e", "f", "g", "h", "i", "j", "k", "l", "m",
            "n", "o", "p", "q", "r", "s", "t", "u", "v", "w", "x", "y", "z",
            "A", "B", "C", "D", "E", "F", "G", "H", "I", "J", "K", "L", "M",
            "N", "O", "P", "Q", "R", "S", "T", "U", "V", "W", "X", "Y", "Z"}

\* the characters the regular expression class \w matches
WordChars == DigitSet \cup Letters \cup {"_"}

Range(s) == {s[i] : i \in DOMAIN s}

\* s.startswith(p) at offset i (1-based)
MatchAt(s, p, i) ==
    /\ i >= 1
    /\ i + Len(p) - 1 <= Len(s)
    /\ \A k \in 1..Len(p) : s[i + k - 1] = p[k]

\* `sub in s`
Contains(s, sub) == \E i \in 1..(Len(s) + 1) : MatchAt(s, sub, i)

DigitVal(c) == CHOOSE d \in 0..9 : Digits[d + 1] = c

\* str.isdigit(): non-empty and every character a digit
IsDigit(s) == Len(s) > 0 /\ \A i \in DOMAIN s : s[i] \in DigitSet

RECURSIVE ParseInt(_)
\* int(s) for s.isdigit()
ParseInt(s) ==
    IF Len(s) = 0 THEN 0
    ELSE 10 * ParseInt(SubSeq(s, 1, Len(s) - 1)) + DigitVal(s[Len(s)])

RECURSIVE Dec(_)
\* str(n) for a non-negative integer
Dec(n) == IF n < 10 THEN <<Digits[n + 1]>> ELSE Dec(n \div 10) \o <<Digits[(n % 10) + 1]>>

\* f"{n:02d}"
Fmt02d(n) == IF n < 10 THEN <<"0">> \o Dec(n) ELSE Dec(n)

(***************************************************************************)
(* YAML scalars as yaml.safe_load returns them: None (also an absent key), *)
(* an int, or a str.                                                       *)
(***************************************************************************)
None == [k |-> "none", n |-> 0, s |-> <<>>]

YInt(n) == [k |-> "int", n |-> n, s |-> <<>>]

YStr(s) == [k |-> "str", n |-> 0, s |-> s]

\* bool(v)
Truthy(v) ==
    CASE v.k = "none" -> FALSE
      [] v.k = "int" -> v.n # 0
      [] OTHER -> Len(v.s) > 0

\* str(v)
PyStr(v) ==
    CASE v.k = "none" -> <<"N", "o", "n", "e">>
      [] v.k = "int" -> Dec(v.n)
      [] OTHER -> v.s

\* `v in d` for a dict d whose keys are all str: an int never equals a str
InKeys(v, keys) == v.k = "str" /\ v.s \in keys

(***************************************************************************)
(* Python dicts keep insertion order: a dict is its key sequence and its   *)
(* value function.                                                         *)
(***************************************************************************)
EmptyDict == [keys |-> <<>>, val |-> <<>>]

HasKey(d, k) == k \in Range(d.keys)

\* d[k] = v
DictPut(d, k, v) ==
    IF HasKey(d, k)
    THEN [keys |-> d.keys, val |-> [x \in Range(d.keys) |-> IF x = k THEN v ELSE d.val[x]]]
    ELSE [keys |-> Append(d.keys, k),
          val |-> [x \in Range(d.keys) \cup {k} |-> IF x = k THEN v ELSE d.val[x]]]

RECURSIVE DictPutAll(_, _)
\* d[k] = v for every pair <<k, v>> of the sequence, in order
DictPutAll(d, pairs) ==
    IF Len(pairs) = 0 THEN d
    ELSE DictPutAll(DictPut(d, pairs[1][1], pairs[1][2]), Tail(pairs))

\* the values of d
DictValues(d) == {d.val[k] : k \in Range(d.keys)}

(***************************************************************************)
(* Type prefixes.                                                          *)
(***************************************************************************)
TYPE_PREFIXES ==
    [t \in {"epic", "feature", "task", "subtask", "bug", "spike"} |->
        CASE t = "epic" -> "E"
          [] t = "feature" -> "F"
          [] t = "task" -> "T"
          [] t = "subtask" -> "S"
          [] t = "bug" -> "B"
          [] OTHER -> "K"]

\* TYPE_PREFIXES.get(spec_type, 'T')
PrefixOf(spec_type) ==
    IF spec_type \in DOMAIN TYPE_PREFIXES THEN TYPE_PREFIXES[spec_type] ELSE "T"

\* metadata.get('type', 'task'); the model writes an absent type as ""
SpecType(metadata) == IF metadata.type = "" THEN "task" ELSE metadata.type

(***************************************************************************)
(* build_hierarchy_map.  specs is the dict specs_data: old_id ->            *)
(* [metadata, body, file_path, type].                                      *)
(***************************************************************************)
\* parent = str(metadata.get('parent', '')) if metadata.get('parent') else ''
ParentKey(spec_info) ==
    IF Truthy(spec_info.metadata.parent) THEN PyStr(spec_info.metadata.parent) ELSE <<>>

\* epics.keys(), and features_by_parent[p], tasks_by_parent[p],
\* subtasks_by_parent[p] (empty when p is no key), in the order of specs_data
EpicKeys(specs) == SelectSeq(specs.keys, LAMBDA k : specs.val[k].type = "epic")

ByParent(specs, spec_type, p) ==
    SelectSeq(specs.keys,
              LAMBDA k : specs.val[k].type = spec_type /\ ParentKey(specs.val[k]) = p)

\* key=lambda x: int(x) if x.isdigit() else 0
SortKey(x) == IF IsDigit(x) THEN ParseInt(x) ELSE 0

\* a variant of Sorted that leaves the ids in the order of the table
SortedAsListed(ids) == ids

RECURSIVE Sorted(_)
\* sorted(ids, key=SortKey): stable
Sorted(ids) ==
    IF Len(ids) = 0 THEN <<>>
    ELSE LET front == Sorted(SubSeq(ids, 1, Len(ids) - 1))
             x == ids[Len(ids)]
             n == Cardinality({i \in DOMAIN front : SortKey(front[i]) <= SortKey(x)})
         IN SubSeq(front, 1, n) \o <<x>> \o SubSeq(front, n + 1, Len(front))

\* a variant of NumberedId that does not advance the counter
NumberedIdStuck(prefix, counter) == <<prefix>> \o Fmt02d(1)

\* f"E{epic_counter:02d}" and its likes
NumberedId(prefix, counter) == <<prefix>> \o Fmt02d(counter)

\* f"{prefix}99_{old_id}"
OrphanId(spec_type, old_id) == <<PrefixOf(spec_type), "9", "9", "_">> \o old_id

\* the assignments of the loop over subtask_ids, in order
SubtaskPairs(specs, task_id) ==
    LET subtask_ids == Sorted(ByParent(specs, "subtask", task_id))
    IN [i \in 1..Len(subtask_ids) |-> <<subtask_ids[i], NumberedId("S", i)>>]

RECURSIVE TaskPairsFrom(_, _, _)
TaskPairsFrom(specs, task_ids, i) ==
    IF i > Len(task_ids) THEN <<>>
    ELSE <<<<task_ids[i], NumberedId("T", i)>>>>
         \o SubtaskPairs(specs, task_ids[i])
         \o TaskPairsFrom(specs, task_ids, i + 1)

\* the assignments of the loop over task_ids, in order
TaskPairs(specs, feature_id) ==
    TaskPairsFrom(specs, Sorted(ByParent(specs, "task", feature_id)), 1)

RECURSIVE FeaturePairsFrom(_, _, _)
FeaturePairsFrom(specs, feature_ids, i) ==
    IF i > Len(feature_ids) THEN <<>>
    ELSE <<<<feature_ids[i], NumberedId("F", i)>>>>
         \o TaskPairs(specs, feature_ids[i])
         \o FeaturePairsFrom(specs, feature_ids, i + 1)

\* the assignments of the loop over feature_ids, in order
FeaturePairs(specs, epic_id) ==
    FeaturePairsFrom(specs, Sorted(ByParent(specs, "feature", epic_id)), 1)

RECURSIVE EpicPairsFrom(_, _, _)
EpicPairsFrom(specs, epic_ids, i) ==
    IF i > Len(epic_ids) THEN <<>>
    ELSE <<<<epic_ids[i], NumberedId("E", i)>>>>
         \o FeaturePairs(specs, epic_ids[i])
         \o EpicPairsFrom(specs, epic_ids, i + 1)

\* the assignments of the loop over epic_ids, in order
EpicPairs(specs) == EpicPairsFrom(specs, Sorted(EpicKeys(specs)), 1)

RECURSIVE OrphanPass(_, _, _)
\* for old_id in specs_data: if old_id not in spec_map: spec_map[old_id] = ...
OrphanPass(specs, map, i) ==
    IF i > Len(specs.keys) THEN map
    ELSE LET old_id == specs.keys[i]
         IN OrphanPass(specs,
                       IF HasKey(map, old_id) THEN map
                       ELSE DictPut(map, old_id, OrphanId(specs.val[old_id].type, old_id)),
                       i + 1)

\* spec_map after build_hierarchy_map
BuildHierarchyMap(specs) == OrphanPass(specs, DictPutAll(EmptyDict, EpicPairs(specs)), 1)

(***************************************************************************)
(* get_new_path.  One iteration of its while loop is WalkStep; the walk    *)
(* state is [cur, hierarchy, done].                                        *)
(***************************************************************************)
\* current_id = old_id; hierarchy = []; `while current_id:` is false at once
\* for the empty string
WalkStart(old_id) == [cur |-> old_id, hierarchy |-> <<>>, done |-> Len(old_id) = 0]

\* hierarchy.insert(0, spec_map[current_id]); then up to the parent when
\* `parent_id and parent_id in self.specs_data`, else break
WalkStep(specs, map, w) ==
    LET parent_id == specs.val[w.cur].metadata.parent
        up == Truthy(parent_id) /\ InKeys(parent_id, Range(specs.keys))
    IN [cur |-> IF up THEN parent_id.s ELSE w.cur,
        hierarchy |-> <<map.val[w.cur]>> \o w.hierarchy,
        done |-> ~up]

RECURSIVE WalkRun(_, _, _, _)
\* the loop, followed for at most fuel iterations
WalkRun(specs, map, w, fuel) ==
    IF w.done \/ fuel = 0 THEN w ELSE WalkRun(specs, map, WalkStep(specs, map, w), fuel - 1)

\* the loop of get_new_path(old_id) ends (it ends within one iteration per
\* loaded node, or never)
WalkEnds(specs, map, old_id) ==
    WalkRun(specs, map, WalkStart(old_id), Len(specs.keys)).done

SPECS == <<"s", "p", "e", "c", "s">>

\* Path(*path_parts): path_parts = ['specs'] + hierarchy
PathOf(hierarchy) == <<SPECS>> \o hierarchy

\* get_new_path(old_id), for a walk that ends
GetNewPath(specs, map, old_id) ==
    PathOf(WalkRun(specs, map, WalkStart(old_id), Len(specs.keys)).hierarchy)

SPEC_MD == <<"s", "p", "e", "c", ".", "m", "d">>

CONTEXT_MD == <<"c", "o", "n", "t", "e", "x", "t", ".", "m", "d">>

DOT_MD == <<".", "m", "d">>

SLASH_SPEC_MD == <<"/">> \o SPEC_MD

(***************************************************************************)
(* The rewriting of the body in update_spec_content and of the context     *)
(* files.  The old ids of the model hold word characters only, so          *)
(* {old_ref} in the pattern matches literally.                             *)
(***************************************************************************)
\* is position i of s a word character (no character outside s)
WordAt(s, i) == i >= 1 /\ i <= Len(s) /\ s[i] \in WordChars

\* \b between positions i-1 and i
Boundary(s, i) == WordAt(s, i - 1) # WordAt(s, i)

\* \b{old_ref}\b matches at i, with the lookahead (?!\.md) when noMd
TokenAt(s, old_ref, noMd, i) ==
    /\ MatchAt(s, old_ref, i)
    /\ Boundary(s, i)
    /\ Boundary(s, i + Len(old_ref))
    /\ (noMd => ~MatchAt(s, DOT_MD, i + Len(old_ref)))

RECURSIVE ReSubFrom(_, _, _, _, _)
\* re.sub of the matches at or after i: leftmost first, not overlapping,
\* the replacement is not scanned again
ReSubFrom(s, old_ref, new_ref, noMd, i) ==
    IF i > Len(s) + 1 THEN <<>>
    ELSE IF TokenAt(s, old_ref, noMd, i)
         THEN IF Len(old_ref) > 0
              THEN new_ref \o ReSubFrom(s, old_ref, new_ref, noMd, i + Len(old_ref))
              ELSE new_ref \o (IF i <= Len(s) THEN <<s[i]>> ELSE <<>>)
                   \o ReSubFrom(s, old_ref, new_ref, noMd, i + 1)
         ELSE (IF i <= Len(s) THEN <<s[i]>> ELSE <<>>)
              \o ReSubFrom(s, old_ref, new_ref, noMd, i + 1)

\* re.sub(rf'\b{old_ref}\b(?!\.md)', new_ref, body)
ReSubToken(s, old_ref, new_ref) == ReSubFrom(s, old_ref, new_ref, TRUE, 1)

\* re.sub(rf'\b{old_ref}\b', new_ref, content)
ReSubWord(s, old_ref, new_ref) == ReSubFrom(s, old_ref, new_ref, FALSE, 1)

RECURSIVE ReplaceFrom(_, _, _, _)
\* str.replace of the occurrences at or after i (old is not empty)
ReplaceFrom(s, old, new, i) ==
    IF i > Len(s) THEN <<>>
    ELSE IF MatchAt(s, old, i)
         THEN new \o ReplaceFrom(s, old, new, i + Len(old))
         ELSE <<s[i]>> \o ReplaceFrom(s, old, new, i + 1)

\* body.replace(f'{old_ref}.md', f'{new_ref}/spec.md')
ReplaceMd(s, old_ref, new_ref) ==
    ReplaceFrom(s, old_ref \o DOT_MD, new_ref \o SLASH_SPEC_MD, 1)

\* the two statements of the loop body, for one pair
RewritePair(body, old_ref, new_ref) ==
    ReplaceMd(ReSubToken(body, old_ref, new_ref), old_ref, new_ref)

RECURSIVE RewriteBodyFrom(_, _, _)
RewriteBodyFrom(map, body, i) ==
    IF i > Len(map.keys) THEN body
    ELSE RewriteBodyFrom(map, RewritePair(body, map.keys[i], map.val[map.keys[i]]), i + 1)

\* for old_ref, new_ref in self.spec_map.items(): ... (in insertion order)
RewriteBody(map, body) == RewriteBodyFrom(map, body, 1)

RECURSIVE RewriteContextFrom(_, _, _)
RewriteContextFrom(map, content, i) ==
    IF i > Len(map.keys) THEN content
    ELSE RewriteContextFrom(map, ReSubWord(content, map.keys[i], map.val[map.keys[i]]), i + 1)

\* the rewriting of a context file's text in migrate_context_files
RewriteContext(map, content) == RewriteContextFrom(map, content, 1)

(***************************************************************************)
(* update_spec_content: the frontmatter fields.  The result is the         *)
(* metadata and the body of the file written; yaml.dump and the banner     *)
(* comments give a text that parse_yaml_frontmatter reads back as this     *)
(* metadata and body.                                                      *)
(***************************************************************************)
\* parent: replaced when `old_parent in self.spec_map` (no str() here)
UpdateParent(map, parent) ==
    IF Truthy(parent) /\ InKeys(parent, Range(map.keys)) THEN YStr(map.val[parent.s]) ELSE parent

\* epic: replaced when `str(metadata['epic']) in self.spec_map`
UpdateEpic(map, epic) ==
    IF Truthy(epic) /\ HasKey(map, PyStr(epic)) THEN YStr(map.val[PyStr(epic)]) ELSE epic

\* a variant of UpdateRefs that keeps the elements it cannot resolve
UpdateRefsKeeping(map, refs) ==
    [i \in DOMAIN refs |->
        IF HasKey(map, PyStr(refs[i])) THEN YStr(map.val[PyStr(refs[i])]) ELSE refs[i]]

\* a variant of UpdateRefs that gives the new ids in the reverse order
UpdateRefsReversed(map, refs) ==
    LET kept == SelectSeq(refs, LAMBDA ref : HasKey(map, PyStr(ref)))
    IN [i \in DOMAIN kept |-> YStr(map.val[PyStr(kept[Len(kept) + 1 - i])])]

\* children, dependencies, blocks, related: the new ids of the elements
\* whose str() is a key of spec_map
UpdateRefs(map, refs) ==
    LET kept == SelectSeq(refs, LAMBDA ref : HasKey(map, PyStr(ref)))
    IN [i \in DOMAIN kept |-> YStr(map.val[PyStr(kept[i])])]

\* generate_short_uuid(seed): the first 8 hex digits of md5(seed), an opaque
\* token; the model writes it as the seed behind the mark "x"
ShortUuid(seed) == <<"x">> \o seed

UpdateSpecContent(specs, map, unique_ids, old_id) ==
    LET spec_info == specs.val[old_id]
        metadata == spec_info.metadata
    IN [metadata |->
            [id |-> YStr(unique_ids[old_id]),
             type |-> metadata.type,
             parent |-> UpdateParent(map, metadata.parent),
             children |-> UpdateRefs(map, metadata.children),
             epic |-> UpdateEpic(map, metadata.epic),
             dependencies |-> UpdateRefs(map, metadata.dependencies),
             blocks |-> UpdateRefs(map, metadata.blocks),
             related |-> UpdateRefs(map, metadata.related)],
        body |-> RewriteBody(map, spec_info.body)]

(***************************************************************************)
(* The document tree.  A path is the sequence of its components; fs maps   *)
(* the path of each file to what parse_yaml_frontmatter reads from it:     *)
(* [metadata, body].  A file without frontmatter or without an id has      *)
(* metadata.id = None.                                                     *)
(***************************************************************************)
Metadata(id, type, parent, children, epic, dependencies, blocks, related) ==
    [id |-> id, type |-> type, parent |-> parent, children |-> children, epic |-> epic,
     dependencies |-> dependencies, blocks |-> blocks, related |-> related]

NoMetadata == Metadata(None, "", None, <<>>, None, <<>>, <<>>, <<>>)

FileName(path) == path[Len(path)]

EndsWith(s, suffix) == MatchAt(s, suffix, Len(s) - Len(suffix) + 1)

RECURSIVE PathStr(_)
\* str(path)
PathStr(path) ==
    IF Len(path) = 0 THEN <<>>
    ELSE IF Len(path) = 1 THEN path[1]
    ELSE path[1] \o <<"/">> \o PathStr(Tail(path))

DELIVERABLES == <<"d", "e", "l", "i", "v", "e", "r", "a", "b", "l", "e", "s">>

WORKFLOW == <<"w", "o", "r", "k", "f", "l", "o", "w">>

CONTEXT == <<"c", "o", "n", "t", "e", "x", "t">>

README == <<"R", "E", "A", "D", "M", "E">>

DOT_CONTEXT_MD == <<".">> \o CONTEXT_MD

\* SPECS_DIR.glob("**/*.md") and the filter of load_all_specs
IsSpecFile(path) ==
    /\ EndsWith(FileName(path), DOT_MD)
    /\ ~Contains(PathStr(path), DELIVERABLES)
    /\ ~Contains(PathStr(path), WORKFLOW)
    /\ ~Contains(FileName(path), CONTEXT)
    /\ ~Contains(FileName(path), README)

\* SPECS_DIR.glob("**/*.context.md")
IsContextFile(path) == EndsWith(FileName(path), DOT_CONTEXT_MD)

\* the directories above a file or directory path, below the root
ParentDirs(path) == {SubSeq(path, 1, n) : n \in 2..(Len(path) - 1)}

\* path.parent.mkdir(parents=True, exist_ok=True) for a file at path
MkdirParents(ds, path) == ds \cup ParentDirs(path)

\* the sequences that list every element of S once
Orderings(S) ==
    {o \in [1..Cardinality(S) -> S] : \A i, j \in 1..Cardinality(S) : o[i] = o[j] => i = j}

(***************************************************************************)
(* load_all_specs.                                                         *)
(***************************************************************************)
SpecInfo(metadata, body, file_path) ==
    [metadata |-> metadata, body |-> body, file_path |-> file_path, type |-> SpecType(metadata)]

RECURSIVE LoadFrom(_, _, _, _)
\* the loop over spec_files from index i: specs_data[old_id] = {...} for each
\* file whose metadata has an id, old_id = str(metadata['id'])
LoadFrom(files, spec_files, specs, i) ==
    IF i > Len(spec_files) THEN specs
    ELSE LET spec_file == spec_files[i]
             content == files[spec_file]
         IN LoadFrom(files, spec_files,
                     IF content.metadata.id = None THEN specs
                     ELSE DictPut(specs, PyStr(content.metadata.id),
                                  SpecInfo(content.metadata, content.body, spec_file)),
                     i + 1)

LoadAllSpecs(files, order) == LoadFrom(files, SelectSeq(order, IsSpecFile), EmptyDict, 1)

\* self.unique_ids after the loop
UniqueIds(specs) == [old_id \in Range(specs.keys) |-> ShortUuid(old_id)]

(***************************************************************************)
(* migrate_context_files.                                                  *)
(***************************************************************************)
\* re.match(r'(\d+)\.context\.md', context_file.name): the digits, or <<>>
ContextId(name) ==
    LET stem == SubSeq(name, 1, Len(name) - Len(DOT_CONTEXT_MD))
    IN IF EndsWith(name, DOT_CONTEXT_MD) /\ IsDigit(stem) THEN stem ELSE <<>>

\* does the loop body write for this context file
ContextMigrates(map, context_file) ==
    LET old_id == ContextId(FileName(context_file))
    IN Len(old_id) > 0 /\ HasKey(map, old_id)

ContextTarget(specs, map, context_file) ==
    GetNewPath(specs, map, ContextId(FileName(context_file))) \o <<CONTEXT_MD>>

RECURSIVE ContextFilesFrom(_, _, _, _, _)
\* the files after the loop over context_files from index i
ContextFilesFrom(files, context_files, specs, map, i) ==
    IF i > Len(context_files) THEN files
    ELSE LET context_file == context_files[i]
             target == ContextTarget(specs, map, context_file)
             text == [metadata |-> NoMetadata,
                      body |-> RewriteContext(map, files[context_file].body)]
         IN ContextFilesFrom(
                IF ContextMigrates(map, context_file)
                THEN [q \in DOMAIN files \cup {target} |-> IF q = target THEN text ELSE files[q]]
                ELSE files,
                context_files, specs, map, i + 1)

\* the context files the loop writes for, in order
MigratedContexts(context_files, map) ==
    SelectSeq(context_files, LAMBDA c : ContextMigrates(map, c))

(***************************************************************************)
(* main: the confirmation prompt.                                          *)
(***************************************************************************)
UPPER == <<"A", "B", "C", "D", "E", "F", "G", "H", "I", "J", "K", "L", "M",
           "N", "O", "P", "Q", "R", "S", "T", "U", "V", "W", "X", "Y", "Z">>

LOWER == <<"a", "b", "c", "d", "e", "f", "g", "h", "i", "j", "k", "l", "m",
           "n", "o", "p", "q", "r", "s", "t", "u", "v", "w", "x", "y", "z">>

LowerChar(c) ==
    IF \E i \in 1..26 : UPPER[i] = c THEN LOWER[CHOOSE i \in 1..26 : UPPER[i] = c] ELSE c

\* str.lower()
Lower(s) == [i \in DOMAIN s |-> LowerChar(s[i])]

YES == <<"y", "e", "s">>

\* what input() gives: nothing read yet, EOFError, or a line
Unread == [k |-> "unread", s |-> <<>>]

Eof == [k |-> "eof", s |-> <<>>]

Line(s) == [k |-> "line", s |-> s]

\* the answers the model types at the prompt
Answers ==
    {Eof, Line(YES), Line(<<"Y", "E", "S">>), Line(<<"n", "o">>), Line(<<"y">>), Line(<<>>)}

(***************************************************************************)
(* State.                                                                  *)
(***************************************************************************)
VARIABLES
    pc,             \* the statement of main / run the process is at
    result,         \* how the process ended: "", "ok", "nodir", "cancelled", "noinput", "crashed"
    force,          \* '--force' in sys.argv
    response,       \* what input() returned
    run,            \* "first", or "second" for a run on the output of the first
    specs_exists,   \* SPECS_DIR.exists()
    fs,             \* the files under SPECS_DIR
    dirs,           \* the directories under SPECS_DIR
    orig,           \* fs when the process started
    listing,        \* the order in which glob enumerates the files of orig
    backup,         \* BACKUP_DIR: [done, tree]
    specs_data,     \* self.specs_data
    unique_ids,     \* self.unique_ids
    spec_map,       \* self.spec_map
    migration_log,  \* self.migration_log
    wi,             \* index of the write loop of perform_migration in specs_data
    walk,           \* the loop state of get_new_path for node wi
    ci,             \* index of the cleanup loop of perform_migration
    deleted,        \* the paths unlinked by the cleanup loop
    log_file,       \* MIGRATION_LOG was written
    rollback_script \* rollback_migration.sh was written

vars == <<pc, result, force, response, run, specs_exists, fs, dirs, orig, listing, backup,
          specs_data, unique_ids, spec_map, migration_log, wi, walk, ci, deleted,
          log_file, rollback_script>>

migrator == <<specs_data, unique_ids, spec_map, migration_log, wi, walk, ci>>

tree == <<fs, dirs>>

given == <<run, specs_exists, orig, listing>>

WalkIdle == [cur |-> <<>>, hierarchy |-> <<>>, done |-> TRUE]

\* the loop state of get_new_path when the write loop reaches node i
WalkFor(specs, i) == IF i <= Len(specs.keys) THEN WalkStart(specs.keys[i]) ELSE WalkIdle

NoBackup == [done |-> FALSE, tree |-> <<>>]

\* SpecMigrator.__init__, and the process not started
Fresh ==
    /\ pc = "main"
    /\ result = ""
    /\ force = FALSE
    /\ response = Unread
    /\ backup = NoBackup
    /\ specs_data = EmptyDict
    /\ unique_ids = <<>>
    /\ spec_map = EmptyDict
    /\ migration_log = <<>>
    /\ wi = 0
    /\ walk = WalkIdle
    /\ ci = 0
    /\ deleted = {}
    /\ log_file = FALSE
    /\ rollback_script = FALSE

\* the old ids whose new file has been written by the write loop
Written == {migration_log[i].old_id : i \in {j \in DOMAIN migration_log : migration_log[j].type = "spec"}}

\* the files with the file at path replaced or created
WriteText(files, path, content) ==
    [q \in DOMAIN files \cup {path} |-> IF q = path THEN content ELSE files[q]]

\* the files without the file at path
Unlink(files, path) == [q \in DOMAIN files \ {path} |-> files[q]]

(***************************************************************************)
(* The scanned trees of the model.                                         *)
(***************************************************************************)
One == <<"1">>

Two == <<"2">>

E01 == <<"E", "0", "1">>

\* a document: its references name node 1 and a node that is not loaded
Doc(id, type, parent) ==
    [metadata |-> Metadata(id, type, parent, <<YInt(2)>>, YInt(1),
                           <<YInt(1), YInt(9)>>, <<>>, <<YStr(One)>>),
     body |-> <<"1", ".", "m", "d", " ", "2">>]

\* the documents a file of the tree may hold
Docs == {Doc(id, type, parent) : id \in {YInt(1), YInt(2)}, type \in {"epic", "feature"},
                                 parent \in {None, YStr(One)}}

\* the i-th file lies in the old layout, or where a migrated epic lies
OldPath(i) == <<SPECS, <<"n">> \o Dec(i) \o DOT_MD>>

PathsOf(i) == {OldPath(i), <<SPECS, E01, SPEC_MD>>}

\* a companion context file of node 1
ContextPath == <<SPECS, One \o DOT_CONTEXT_MD>>

ContextDoc == [metadata |-> NoMetadata, body |-> <<"1", " ", "2", "1">>]

\* the trees: up to MaxFiles documents at distinct paths, in glob order
Trees ==
    UNION {{t \in [1..n -> [path : UNION {PathsOf(i) : i \in 1..n}, doc : Docs]] :
                /\ \A i \in 1..n : t[i].path \in PathsOf(i)
                /\ \A i, j \in 1..n : t[i].path = t[j].path => i = j}
           : n \in 0..MaxFiles}

FilesOf(t) ==
    [q \in {t[i].path : i \in DOMAIN t} \cup {ContextPath} |->
        IF q = ContextPath THEN ContextDoc ELSE t[CHOOSE i \in DOMAIN t : t[i].path = q].doc]

\* the directories that hold the files
DirsOf(files) == UNION {ParentDirs(q) : q \in DOMAIN files}

\* a process started on a tree: the files and the order glob lists them in
StartOn(files, order) ==
    /\ specs_exists = TRUE
    /\ fs = files
    /\ dirs = DirsOf(files)
    /\ orig = files
    /\ listing = order

Init ==
    /\ Fresh
    /\ run = "first"
    /\ \/ /\ specs_exists = FALSE
          /\ fs = <<>>
          /\ dirs = {}
          /\ orig = <<>>
          /\ listing = <<>>
       \/ \E t \in Trees : StartOn(FilesOf(t), [i \in DOMAIN t |-> t[i].path] \o <<ContextPath>>)

(***************************************************************************)
(* main.                                                                   *)
(***************************************************************************)
Exit(how) == pc' = "exit" /\ result' = how

\* a variant of main in which an EOFError at the prompt does not end the
\* process
main_eof_proceeds ==
    /\ pc = "main"
    /\ \E f \in BOOLEAN, r \in Answers :
        IF ~specs_exists
        THEN Exit("nodir") /\ UNCHANGED <<force, response>>
        ELSE /\ force' = f
             /\ IF f
                THEN pc' = "backup" /\ UNCHANGED <<response, result>>
                ELSE /\ response' = r
                     /\ IF r # Eof /\ Lower(r.s) # YES THEN Exit("cancelled")
                        ELSE pc' = "backup" /\ UNCHANGED result
    /\ UNCHANGED <<given, tree, backup, migrator, deleted, log_file, rollback_script>>

main ==
    /\ pc = "main"
    /\ \E f \in BOOLEAN, r \in Answers :
        IF ~specs_exists
        THEN Exit("nodir") /\ UNCHANGED <<force, response>>
        ELSE /\ force' = f
             /\ IF f
                THEN pc' = "backup" /\ UNCHANGED <<response, result>>
                ELSE /\ response' = r
                     /\ IF r = Eof THEN Exit("noinput")
                        ELSE IF Lower(r.s) # YES THEN Exit("cancelled")
                        ELSE pc' = "backup" /\ UNCHANGED result
    /\ UNCHANGED <<given, tree, backup, migrator, deleted, log_file, rollback_script>>

(***************************************************************************)
(* run, step 1: create_backup.  shutil.copytree may raise.                 *)
(***************************************************************************)
\* a variant of create_backup in which a failed copy is not fatal
create_backup_unchecked ==
    /\ pc = "backup"
    /\ \E copied \in BOOLEAN :
        IF copied
        THEN backup' = [done |-> TRUE, tree |-> fs] /\ pc' = "load" /\ UNCHANGED result
        ELSE pc' = "load" /\ UNCHANGED <<backup, result>>
    /\ UNCHANGED <<force, response, given, tree, migrator, deleted, log_file, rollback_script>>

create_backup ==
    /\ pc = "backup"
    /\ \E copied \in BOOLEAN :
        IF copied
        THEN backup' = [done |-> TRUE, tree |-> fs] /\ pc' = "load" /\ UNCHANGED result
        ELSE Exit("crashed") /\ UNCHANGED backup
    /\ UNCHANGED <<force, response, given, tree, migrator, deleted, log_file, rollback_script>>

(***************************************************************************)
(* run, step 2: load_all_specs.                                            *)
(***************************************************************************)
load_all_specs ==
    /\ pc = "load"
    /\ specs_data' = LoadAllSpecs(fs, listing)
    /\ unique_ids' = UniqueIds(specs_data')
    /\ pc' = "resolve"
    /\ UNCHANGED <<result, force, response, given, tree, backup, spec_map, migration_log,
                   wi, walk, ci, deleted, log_file, rollback_script>>

(***************************************************************************)
(* run, step 3: build_hierarchy_map; then perform_migration begins its     *)
(* write loop.                                                             *)
(***************************************************************************)
build_hierarchy_map ==
    /\ pc = "resolve"
    /\ spec_map' = BuildHierarchyMap(specs_data)
    /\ wi' = 1
    /\ walk' = WalkFor(specs_data, 1)
    /\ pc' = IF Len(specs_data.keys) = 0 THEN "context" ELSE "write"
    /\ UNCHANGED <<result, force, response, given, tree, backup, specs_data, unique_ids,
                   migration_log, ci, deleted, log_file, rollback_script>>

(***************************************************************************)
(* run, step 4: perform_migration.                                         *)
(***************************************************************************)
\* one iteration of the while loop of get_new_path for node wi
get_new_path ==
    /\ pc = "write"
    /\ ~walk.done
    /\ Len(walk.hierarchy) < MaxWalk
    /\ walk' = WalkStep(specs_data, spec_map, walk)
    /\ UNCHANGED <<pc, result, force, response, given, tree, backup, specs_data, unique_ids,
                   spec_map, migration_log, wi, ci, deleted, log_file, rollback_script>>

\* a variant of write_spec that moves the document: it unlinks the old file
\* as soon as the new one is written
write_spec_moving ==
    /\ pc = "write"
    /\ walk.done
    /\ LET old_id == specs_data.keys[wi]
           spec_info == specs_data.val[old_id]
           spec_path == PathOf(walk.hierarchy) \o <<SPEC_MD>>
           new_content == UpdateSpecContent(specs_data, spec_map, unique_ids, old_id)
       IN /\ dirs' = MkdirParents(dirs, spec_path)
          /\ \E stored \in BOOLEAN :
               IF stored
               THEN /\ fs' = IF spec_info.file_path = spec_path
                             THEN WriteText(fs, spec_path, new_content)
                             ELSE Unlink(WriteText(fs, spec_path, new_content),
                                         spec_info.file_path)
                    /\ deleted' = IF spec_info.file_path = spec_path THEN deleted
                                  ELSE deleted \cup {spec_info.file_path}
                    /\ migration_log' = Append(migration_log,
                           [type |-> "spec", old_id |-> old_id, new_id |-> spec_map.val[old_id],
                            unique_id |-> unique_ids[old_id],
                            old_path |-> spec_info.file_path, new_path |-> spec_path])
                    /\ wi' = wi + 1
                    /\ walk' = WalkFor(specs_data, wi + 1)
                    /\ pc' = IF wi = Len(specs_data.keys) THEN "context" ELSE "write"
                    /\ UNCHANGED result
               ELSE /\ Exit("crashed")
                    /\ UNCHANGED <<fs, migration_log, wi, walk, deleted>>
    /\ UNCHANGED <<force, response, given, backup, specs_data, unique_ids, spec_map, ci,
                   log_file, rollback_script>>

\* the rest of the body of the write loop for node wi: mkdir,
\* update_spec_content, write_text (which may raise), the log entry
write_spec ==
    /\ pc = "write"
    /\ walk.done
    /\ LET old_id == specs_data.keys[wi]
           spec_info == specs_data.val[old_id]
           spec_path == PathOf(walk.hierarchy) \o <<SPEC_MD>>
           new_content == UpdateSpecContent(specs_data, spec_map, unique_ids, old_id)
       IN /\ dirs' = MkdirParents(dirs, spec_path)
          /\ \E stored \in BOOLEAN :
               IF stored
               THEN /\ fs' = WriteText(fs, spec_path, new_content)
                    /\ migration_log' = Append(migration_log,
                           [type |-> "spec", old_id |-> old_id, new_id |-> spec_map.val[old_id],
                            unique_id |-> unique_ids[old_id],
                            old_path |-> spec_info.file_path, new_path |-> spec_path])
                    /\ wi' = wi + 1
                    /\ walk' = WalkFor(specs_data, wi + 1)
                    /\ pc' = IF wi = Len(specs_data.keys) THEN "context" ELSE "write"
                    /\ UNCHANGED result
               ELSE /\ Exit("crashed")
                    /\ UNCHANGED <<fs, migration_log, wi, walk>>
    /\ UNCHANGED <<force, response, given, backup, specs_data, unique_ids, spec_map, ci,
                   deleted, log_file, rollback_script>>

migrate_context_files ==
    /\ pc = "context"
    /\ LET context_files == SelectSeq(listing, LAMBDA q : q \in DOMAIN fs /\ IsContextFile(q))
           done == MigratedContexts(context_files, spec_map)
       IN /\ fs' = ContextFilesFrom(fs, context_files, specs_data, spec_map, 1)
          /\ dirs' = dirs \cup UNION {ParentDirs(ContextTarget(specs_data, spec_map, done[i]))
                                      : i \in DOMAIN done}
          /\ migration_log' = migration_log \o
                [i \in DOMAIN done |->
                    [type |-> "context", old_id |-> <<>>, new_id |-> <<>>, unique_id |-> <<>>,
                     old_path |-> done[i],
                     new_path |-> ContextTarget(specs_data, spec_map, done[i])]]
    /\ ci' = 1
    /\ pc' = IF Len(specs_data.keys) = 0 THEN "prune" ELSE "cleanup"
    /\ UNCHANGED <<result, force, response, given, backup, specs_data, unique_ids, spec_map,
                   wi, walk, deleted, log_file, rollback_script>>

\* one iteration of the cleanup loop: if old_file.exists(): old_file.unlink()
unlink_old_file ==
    /\ pc = "cleanup"
    /\ LET old_file == specs_data.val[specs_data.keys[ci]].file_path
       IN IF old_file \in DOMAIN fs
          THEN fs' = Unlink(fs, old_file) /\ deleted' = deleted \cup {old_file}
          ELSE UNCHANGED <<fs, deleted>>
    /\ ci' = ci + 1
    /\ pc' = IF ci = Len(specs_data.keys) THEN "prune" ELSE "cleanup"
    /\ UNCHANGED <<result, force, response, given, dirs, backup, specs_data, unique_ids,
                   spec_map, migration_log, wi, walk, log_file, rollback_script>>

\* the directories left when the empty ones are removed, deepest first
NonEmptyDirs(ds, files) ==
    {d \in ds : \E q \in DOMAIN files : Len(q) > Len(d) /\ SubSeq(q, 1, Len(d)) = d}

remove_empty_dirs ==
    /\ pc = "prune"
    /\ dirs' = NonEmptyDirs(dirs, fs)
    /\ pc' = "log"
    /\ UNCHANGED <<result, force, response, given, fs, backup, migrator, deleted, log_file,
                   rollback_script>>

(***************************************************************************)
(* run, steps 5 and 6.                                                     *)
(***************************************************************************)
save_migration_log ==
    /\ pc = "log"
    /\ log_file' = TRUE
    /\ pc' = "rollback"
    /\ UNCHANGED <<result, force, response, given, tree, backup, migrator, deleted,
                   rollback_script>>

create_rollback_script ==
    /\ pc = "rollback"
    /\ rollback_script' = TRUE
    /\ Exit("ok")
    /\ UNCHANGED <<force, response, given, tree, backup, migrator, deleted, log_file>>

Next ==
    \/ main
    \/ create_backup
    \/ load_all_specs
    \/ build_hierarchy_map
    \/ get_new_path
    \/ write_spec
    \/ migrate_context_files
    \/ unlink_old_file
    \/ remove_empty_dirs
    \/ save_migration_log
    \/ create_rollback_script

Spec == Init /\ [][Next]_vars

(***************************************************************************)
(* Properties of the pipeline.                                             *)
(***************************************************************************)
\* the position of a statement of main / run in the order of run
Rank(p) ==
    CASE p = "main" -> 0
      [] p = "backup" -> 1
      [] p = "load" -> 2
      [] p = "resolve" -> 3
      [] p = "write" -> 4
      [] p = "context" -> 5
      [] p = "cleanup" -> 6
      [] p = "prune" -> 7
      [] p = "log" -> 8
      [] p = "rollback" -> 9
      [] OTHER -> 10

AllKeys == Range(specs_data.keys)

\* C1: no original file is unlinked before the write loop has written the new
\* file of every loaded node; once a file is unlinked the write loop is over.
C1_WritesBeforeDeletes ==
    deleted # {} => (Written = AllKeys /\ wi > Len(specs_data.keys) /\ Rank(pc) >= Rank("cleanup"))

C1_Witness == deleted # {} /\ Cardinality(Written) >= 2

\* the process died of the exception of a write_text of the write loop
WriteFailed == pc = "exit" /\ result = "crashed" /\ backup.done

\* C2: after a failed write of the write loop, every original file is there
\* with its original content, the new files of the nodes written before it
\* are there, and nothing was deleted.
C2_WriteFailureKeepsOriginals ==
    WriteFailed =>
        /\ \A q \in DOMAIN orig : q \in DOMAIN fs /\ fs[q] = orig[q]
        /\ \A i \in DOMAIN migration_log : migration_log[i].new_path \in DOMAIN fs
        /\ deleted = {}

\* some node's parent links lead back to a node of its own chain
HasCycle ==
    /\ Len(spec_map.keys) > 0
    /\ \E old_id \in AllKeys : ~WalkEnds(specs_data, spec_map, old_id)

\* C5: with a cycle in the parent links nothing is written, and the walk of
\* get_new_path does not go round: it never does more iterations than there
\* are loaded nodes.
C5_CycleIsDetected ==
    HasCycle => (Written = {} /\ Len(walk.hierarchy) <= Len(specs_data.keys))

\* the spec files of the scanned tree, in the order they are loaded
Loaded == SelectSeq(listing, LAMBDA q : q \in DOMAIN orig /\ IsSpecFile(q) /\ orig[q].metadata.id # None)

\* C6: two files that declare the same id are never reduced to the entry of
\* the one loaded last with no trace of the other.
C6_DuplicateIdIsSurfaced ==
    \A i, j \in DOMAIN Loaded :
        (/\ i < j
         /\ PyStr(orig[Loaded[i]].metadata.id) = PyStr(orig[Loaded[j]].metadata.id)
         /\ HasKey(specs_data, PyStr(orig[Loaded[j]].metadata.id)))
        => ~(/\ specs_data.val[PyStr(orig[Loaded[j]].metadata.id)].file_path = Loaded[j]
             /\ \A k \in AllKeys : specs_data.val[k].file_path # Loaded[i]
             /\ result \in {"", "ok"})

\* C8: the statements of run follow each other in the order backup, load,
\* resolve, write, context files, cleanup, log, rollback script (the two loops
\* are skipped when nothing was loaded); nothing is loaded, written or deleted
\* before the backup is complete, and a failed backup ends the process.
C8_PhaseStep ==
    /\ pc' # pc =>
          \/ pc' = "exit"
          \/ Rank(pc') = Rank(pc) + 1
          \/ Len(specs_data.keys) = 0 /\ pc = "resolve" /\ pc' = "context"
          \/ Len(specs_data.keys) = 0 /\ pc = "context" /\ pc' = "prune"
    /\ (specs_data' # specs_data \/ fs' # fs \/ deleted' # deleted) => backup.done
    /\ (pc = "backup" /\ ~backup'.done) => (pc' = "exit" /\ result' = "crashed")

C8_PhaseOrder == [][C8_PhaseStep]_vars

C8_Witness ==
    pc = "exit" /\ result = "crashed" /\ ~backup.done /\ Cardinality(DOMAIN fs) >= 2

\* the prompt was answered, and not by yes
Declined == ~force /\ response # Unread /\ (response = Eof \/ Lower(response.s) # YES)

\* C9: without --force, when the prompt gets no input or an answer other than
\* yes (in any case of the letters), the process ends and no step of run has
\* run: no backup, nothing loaded, written or deleted.
C9_DeclinedRunsNothing ==
    Declined =>
        /\ pc = "exit"
        /\ result \in {"cancelled", "noinput"}
        /\ backup = NoBackup
        /\ fs = orig /\ dirs = DirsOf(orig) /\ deleted = {}
        /\ specs_data = EmptyDict /\ migration_log = <<>>
        /\ ~log_file /\ ~rollback_script

C9_Witness == Declined /\ response = Eof /\ Cardinality(DOMAIN fs) >= 2

(***************************************************************************)
(* A second run of the program on the tree the first run left.  The new    *)
(* process starts from SpecMigrator.__init__; glob may list the files in   *)
(* any order.                                                              *)
(***************************************************************************)
rerun ==
    /\ pc = "exit" /\ result = "ok" /\ run = "first"
    /\ run' = "second"
    /\ pc' = "main"
    /\ result' = ""
    /\ force' = FALSE
    /\ response' = Unread
    /\ orig' = fs
    /\ listing' \in Orderings(DOMAIN fs)
    /\ backup' = NoBackup
    /\ specs_data' = EmptyDict
    /\ unique_ids' = <<>>
    /\ spec_map' = EmptyDict
    /\ migration_log' = <<>>
    /\ wi' = 0
    /\ walk' = WalkIdle
    /\ ci' = 0
    /\ deleted' = {}
    /\ log_file' = FALSE
    /\ rollback_script' = FALSE
    /\ UNCHANGED <<specs_exists, fs, dirs>>

NextRerun == Next \/ rerun

SpecRerun == Init /\ [][NextRerun]_vars

\* C3: the second run, on the tree the first run produced, changes no file:
\* nothing is written, moved or deleted.
C3_SecondRunMutatesNothing == run = "second" => (fs = orig /\ deleted = {})

(***************************************************************************)
(* Runs of single steps.  Each starts in the state run has reached when    *)
(* the step begins, on a tree of the old layout.                           *)
(***************************************************************************)
\* run on the files, listed in order, after load_all_specs
Running(files, order) ==
    /\ run = "first"
    /\ StartOn(files, order)
    /\ result = ""
    /\ force = TRUE
    /\ response = Unread
    /\ backup = [done |-> TRUE, tree |-> files]
    /\ specs_data = LoadAllSpecs(files, order)
    /\ unique_ids = UniqueIds(specs_data)
    /\ migration_log = <<>>
    /\ ci = 0
    /\ deleted = {}
    /\ log_file = FALSE
    /\ rollback_script = FALSE

\* the state of run when build_hierarchy_map begins
AfterLoad(files, order) ==
    /\ Running(files, order)
    /\ pc = "resolve"
    /\ spec_map = EmptyDict
    /\ wi = 0
    /\ walk = WalkIdle

\* the state of run when the write loop of perform_migration begins
AfterResolve(files, order) ==
    /\ Running(files, order)
    /\ pc = IF Len(specs_data.keys) = 0 THEN "context" ELSE "write"
    /\ spec_map = BuildHierarchyMap(specs_data)
    /\ wi = 1
    /\ walk = WalkFor(specs_data, 1)

\* the files of a sequence of documents, the i-th at OldPath(i)
OldTree(docs) == [q \in {OldPath(i) : i \in DOMAIN docs} |->
                    docs[CHOOSE i \in DOMAIN docs : OldPath(i) = q]]

OldOrder(docs) == [i \in DOMAIN docs |-> OldPath(i)]

\* a document with nothing but id, type and parent
Plain(id, type, parent) ==
    [metadata |-> Metadata(id, type, parent, <<>>, None, <<>>, <<>>, <<>>), body |-> <<>>]

\* the parents a node of the tables may declare
ParentIds == {1, 2}

\* the tables: node i has id i, any of three types, and no parent or one of
\* the first two nodes as its parent
Tables ==
    UNION {[1..n -> {"epic", "feature", "task"} \X ({0} \cup (ParentIds \cap 1..n))]
           : n \in 1..MaxNodes}

TableDocs(t) ==
    [i \in DOMAIN t |-> Plain(YInt(i), t[i][1], IF t[i][2] = 0 THEN None ELSE YInt(t[i][2]))]

InitResolve == \E t \in Tables : AfterLoad(OldTree(TableDocs(t)), OldOrder(TableDocs(t)))

\* build_hierarchy_map alone
SpecResolve == InitResolve /\ [][build_hierarchy_map]_vars

Mapped == Len(spec_map.keys) > 0

\* the node was numbered by the nested loops (it did not fall to the orphan pass)
Numbered(old_id) == spec_map.val[old_id] # OrphanId(specs_data.val[old_id].type, old_id)

\* C4 as claimed: without parent cycles, no two old ids get the same new id.
C4_MapInjective ==
    (Mapped /\ ~HasCycle) =>
        \A a, b \in AllKeys : spec_map.val[a] = spec_map.val[b] => a = b

\* C4 as it holds: spec_map covers every loaded node, and two distinct old
\* ids get the same new id only when both were numbered, have the same type
\* and stand under different parents.
C4_MapInjectivePerScope ==
    Mapped =>
        /\ Range(spec_map.keys) = AllKeys
        /\ \A a, b \in AllKeys :
              (a # b /\ spec_map.val[a] = spec_map.val[b]) =>
                  /\ Numbered(a) /\ Numbered(b)
                  /\ specs_data.val[a].type = specs_data.val[b].type
                  /\ ParentKey(specs_data.val[a]) # ParentKey(specs_data.val[b])

\* two features numbered under one epic, and an orphan
C4_Witness ==
    /\ Mapped
    /\ \E a, b, c \in AllKeys :
          /\ spec_map.val[a] = <<"F", "0", "1">>
          /\ spec_map.val[b] = <<"F", "0", "2">>
          /\ ParentKey(specs_data.val[a]) = ParentKey(specs_data.val[b])
          /\ ~Numbered(c)

(***************************************************************************)
(* build_hierarchy_map on tables whose ids are numbers and words, loaded   *)
(* in the order of the files or in the reverse order.                      *)
(***************************************************************************)
\* the id of the i-th document; the third may be the empty string
OrderIds(blank) ==
    <<YInt(3), YInt(1), IF blank THEN YStr(<<>>) ELSE YStr(<<"b">>), YStr(<<"a">>)>>

\* node i has any of three types, and no parent or one of the first two nodes
\* as its parent, loaded or not
OrderTables ==
    UNION {[1..n -> {"epic", "feature", "task"} \X {None, YInt(3), YInt(1)}]
           : n \in 1..Len(OrderIds(FALSE))}

OrderDocs(t, blank) == [i \in DOMAIN t |-> Plain(OrderIds(blank)[i], t[i][1], t[i][2])]

Reverse(s) == [i \in DOMAIN s |-> s[Len(s) + 1 - i]]

InitOrder ==
    \E t \in OrderTables, blank \in BOOLEAN :
        \E o \in {OldOrder(OrderDocs(t, blank)), Reverse(OldOrder(OrderDocs(t, blank)))} :
            AfterLoad(OldTree(OrderDocs(t, blank)), o)

SpecOrder == InitOrder /\ [][build_hierarchy_map]_vars

\* the loaded nodes of a type whose parent key is p
Scope(spec_type, p) ==
    {k \in AllKeys : specs_data.val[k].type = spec_type /\ ParentKey(specs_data.val[k]) = p}

\* the counter value the new id of a node of a scope carries
CounterOf(S, prefix, a) ==
    CHOOSE n \in 1..Cardinality(S) : spec_map.val[a] = <<prefix>> \o Fmt02d(n)

\* the nodes of S carry the new ids prefix01, prefix02, ... with no gap, in
\* ascending numeric order of their old ids
NumberedInOrder(S, prefix) ==
    /\ {spec_map.val[a] : a \in S} = {<<prefix>> \o Fmt02d(n) : n \in 1..Cardinality(S)}
    /\ \A a, b \in S :
          (IsDigit(a) /\ IsDigit(b) /\ ParseInt(a) < ParseInt(b))
              => CounterOf(S, prefix, a) < CounterOf(S, prefix, b)

Epics == {k \in AllKeys : specs_data.val[k].type = "epic"}

\* C11: the epics are numbered E01, E02, ... in ascending numeric order of
\* their old ids; under each epic its features are numbered from F01 in that
\* order, and under each of these features its tasks from T01.
C11_ScopedNumbering ==
    Mapped =>
        /\ NumberedInOrder(Epics, "E")
        /\ \A e \in Epics :
              /\ NumberedInOrder(Scope("feature", e), "F")
              /\ \A f \in Scope("feature", e) : NumberedInOrder(Scope("task", f), "T")

\* epics 3 and 1, loaded in this order, each with one feature: 1 -> E01,
\* 3 -> E02, each feature -> F01
C11_Witness ==
    /\ Mapped
    /\ specs_data.keys = <<<<"3">>, <<"1">>, <<"b">>, <<"a">>>>
    /\ spec_map.val[<<"1">>] = <<"E", "0", "1">>
    /\ spec_map.val[<<"3">>] = <<"E", "0", "2">>
    /\ spec_map.val[<<"b">>] = <<"F", "0", "1">>
    /\ spec_map.val[<<"a">>] = <<"F", "0", "1">>
    /\ ParentKey(specs_data.val[<<"b">>]) # ParentKey(specs_data.val[<<"a">>])

\* the type the parent of a node of the type has in the chain epic, feature,
\* task, subtask
ExpectedParentType(spec_type) ==
    CASE spec_type = "feature" -> "epic"
      [] spec_type = "task" -> "feature"
      [] OTHER -> "task"

\* the node declares no parent, or one that is no loaded node of the expected
\* type
Unattached(k) ==
    LET p == ParentKey(specs_data.val[k])
    IN \/ p = <<>>
       \/ ~HasKey(specs_data, p)
       \/ specs_data.val[p].type # ExpectedParentType(specs_data.val[k].type)

\* C12: a feature, task or subtask that declares no parent, or a parent that
\* is no loaded node of the expected type, gets the fallback id
\* {prefix}99_{old_id}.
C12_UnattachedGetsFallbackId ==
    Mapped =>
        \A k \in AllKeys :
            (specs_data.val[k].type \in {"feature", "task", "subtask"} /\ Unattached(k))
                => spec_map.val[k] = OrphanId(specs_data.val[k].type, k)

\* C13: the mapping depends on the documents only, not on the order in which
\* the files were listed and inserted: loading the same files in any other
\* order gives every old id the same new id.
C13_MapIndependentOfLoadOrder ==
    Mapped =>
        \A o \in Orderings(DOMAIN orig) :
            BuildHierarchyMap(LoadAllSpecs(orig, o)).val = spec_map.val

(***************************************************************************)
(* The write loop alone: get_new_path and update_spec_content on           *)
(* documents with varied references, and on varied bodies.                 *)
(***************************************************************************)
WriteLoop == get_new_path \/ write_spec

Nine == <<"9">>

\* documents whose references are numbers or strings, of loaded and of
\* unknown nodes
RefDocs(id) ==
    {[metadata |-> Metadata(YInt(id), type, parent, <<YInt(2), YInt(9)>>, epic,
                            dependencies, <<YStr(One)>>, <<YInt(9)>>),
      body |-> <<"1", " ", "9">>] :
        type \in {"epic", "task"},
        parent \in {None, YInt(1), YStr(One), YStr(Nine)},
        epic \in {None, YInt(1), YStr(Nine)},
        dependencies \in {<<>>, <<YInt(1), YStr(Nine), YStr(Two)>>}}

InitContent ==
    \E d1 \in RefDocs(1), d2 \in RefDocs(2), n \in 1..2 :
        AfterResolve(OldTree(SubSeq(<<d1, d2>>, 1, n)), OldOrder(SubSeq(<<d1, d2>>, 1, n)))

SpecContent == InitContent /\ [][WriteLoop]_vars

\* the log entries of the documents written
SpecEntries == {i \in DOMAIN migration_log : migration_log[i].type = "spec"}

\* the metadata of the file written for log entry i, and of its source
NewMeta(i) == fs[migration_log[i].new_path].metadata

OldMeta(i) == specs_data.val[migration_log[i].old_id].metadata

\* a new id that spec_map assigns to some node
InMapRange(v) == v.k = "str" /\ v.s \in DictValues(spec_map)

RefsInRange(refs) == \A k \in DOMAIN refs : InMapRange(refs[k])

\* C7 as claimed: in a rewritten node, dependencies, blocks, related hold
\* only new ids of the mapping, and parent and epic are empty or such an id.
C7_ReferenceIntegrity ==
    \A i \in SpecEntries :
        /\ RefsInRange(NewMeta(i).dependencies)
        /\ RefsInRange(NewMeta(i).blocks)
        /\ RefsInRange(NewMeta(i).related)
        /\ (NewMeta(i).parent = None \/ InMapRange(NewMeta(i).parent))
        /\ (NewMeta(i).epic = None \/ InMapRange(NewMeta(i).epic))

\* C7 as it holds: dependencies, blocks and related hold only new ids of the
\* mapping; parent and epic hold such an id or else their value from the
\* source file, unchanged.
C7_ListReferenceIntegrity ==
    \A i \in SpecEntries :
        /\ RefsInRange(NewMeta(i).dependencies)
        /\ RefsInRange(NewMeta(i).blocks)
        /\ RefsInRange(NewMeta(i).related)
        /\ (NewMeta(i).parent = OldMeta(i).parent \/ InMapRange(NewMeta(i).parent))
        /\ (NewMeta(i).epic = OldMeta(i).epic \/ InMapRange(NewMeta(i).epic))

\* a node written whose dependencies lost an unknown reference and kept a
\* mapped one, and whose parent was replaced
C7_Witness ==
    \E i \in SpecEntries :
        /\ Len(OldMeta(i).dependencies) = 3
        /\ Len(NewMeta(i).dependencies) = 2
        /\ NewMeta(i).parent # OldMeta(i).parent

\* the value a parent or epic field is to have after the rewriting: the new
\* id of the node it names, written as a number or as a string, or else the
\* value itself
Remapped(v) ==
    IF Truthy(v) /\ HasKey(spec_map, PyStr(v)) THEN YStr(spec_map.val[PyStr(v)]) ELSE v

\* C16: in a rewritten node, a parent or epic field that names a node of the
\* mapping holds that node's new id, whether the field was a number or a
\* string, and is unchanged otherwise.
C16_ParentAndEpicRemapped ==
    \A i \in SpecEntries :
        /\ NewMeta(i).parent = Remapped(OldMeta(i).parent)
        /\ NewMeta(i).epic = Remapped(OldMeta(i).epic)

\* the positions of a list field whose element names a node of the mapping
KeptIndexes(refs) == {k \in DOMAIN refs : HasKey(spec_map, PyStr(refs[k]))}

\* the j-th of these positions
NthKept(refs, j) ==
    CHOOSE k \in KeptIndexes(refs) : Cardinality({x \in KeptIndexes(refs) : x <= k}) = j

\* new holds the new ids of exactly the elements of old that name a node of
\* the mapping, in the order of old
ListRemapped(old, new) ==
    /\ Len(new) = Cardinality(KeptIndexes(old))
    /\ \A j \in 1..Len(new) : new[j] = YStr(spec_map.val[PyStr(old[NthKept(old, j)])])

\* C17: in a rewritten node, each of children, dependencies, blocks and
\* related is the list of the new ids of exactly those of its elements that
\* have a mapping entry, in their original order; the others are dropped.
C17_ListsRemappedInOrder ==
    \A i \in SpecEntries :
        /\ ListRemapped(OldMeta(i).children, NewMeta(i).children)
        /\ ListRemapped(OldMeta(i).dependencies, NewMeta(i).dependencies)
        /\ ListRemapped(OldMeta(i).blocks, NewMeta(i).blocks)
        /\ ListRemapped(OldMeta(i).related, NewMeta(i).related)

\* a node written whose dependencies kept two different new ids around a
\* dropped one, whose children lost the unknown one, and whose related list
\* became empty
C17_Witness ==
    \E i \in SpecEntries :
        /\ Len(OldMeta(i).dependencies) = 3
        /\ Len(NewMeta(i).dependencies) = 2
        /\ NewMeta(i).dependencies[1] # NewMeta(i).dependencies[2]
        /\ Len(OldMeta(i).children) = 2
        /\ Len(NewMeta(i).children) = 1
        /\ Len(OldMeta(i).related) = 1
        /\ NewMeta(i).related = <<>>

(***************************************************************************)
(* The rewriting of one old id in generated bodies.                        *)
(***************************************************************************)
BodyChars == {"1", "2", ".", "m", "d", " "}

Bodies == UNION {[1..n -> BodyChars] : n \in 0..MaxBody}

\* one epic, id 1, with the body
BodyDoc(body) ==
    [metadata |-> Metadata(YInt(1), "epic", None, <<>>, None, <<>>, <<>>, <<>>), body |-> body]

InitBody == \E body \in Bodies : AfterResolve(OldTree(<<BodyDoc(body)>>), OldOrder(<<BodyDoc(body)>>))

SpecBody == InitBody /\ [][WriteLoop]_vars

\* old_ref stands at i as a whole token
WholeTokenAt(s, old_ref, i) ==
    MatchAt(s, old_ref, i) /\ Boundary(s, i) /\ Boundary(s, i + Len(old_ref))

RECURSIVE WholeTokenRewriteFrom(_, _, _, _)
\* the rewriting C10 describes, from position i: a whole token followed by
\* .md becomes new_ref/spec.md, any other whole token becomes new_ref, and
\* everything else stays
WholeTokenRewriteFrom(s, old_ref, new_ref, i) ==
    IF i > Len(s) THEN <<>>
    ELSE IF WholeTokenAt(s, old_ref, i)
         THEN IF MatchAt(s, DOT_MD, i + Len(old_ref))
              THEN new_ref \o SLASH_SPEC_MD
                   \o WholeTokenRewriteFrom(s, old_ref, new_ref, i + Len(old_ref) + Len(DOT_MD))
              ELSE new_ref \o WholeTokenRewriteFrom(s, old_ref, new_ref, i + Len(old_ref))
         ELSE <<s[i]>> \o WholeTokenRewriteFrom(s, old_ref, new_ref, i + 1)

\* C10: the body written is the whole-token rewriting of the source body: an
\* old id inside a longer token stays, also when .md follows it.
C10_WholeTokenOnly ==
    \A i \in SpecEntries :
        fs[migration_log[i].new_path].body =
            WholeTokenRewriteFrom(specs_data.val[migration_log[i].old_id].body,
                                  migration_log[i].old_id, migration_log[i].new_id, 1)

(***************************************************************************)
(* The write loop on chains of parent links: document i names document     *)
(* i - 1 as its parent, as a number or as a string, or names none.         *)
(***************************************************************************)
\* node i has one of two types, and no parent or node i - 1 as its parent,
\* written as a number or as a string
ChainTables ==
    UNION {{t \in [1..n -> {"epic", "feature"} \X {"none", "int", "str"}] : t[1][2] = "none"}
           : n \in 1..MaxChain}

ChainParent(kind, i) ==
    CASE kind = "int" -> YInt(i - 1)
      [] kind = "str" -> YStr(Dec(i - 1))
      [] OTHER -> None

ChainDocs(t) == [i \in DOMAIN t |-> Plain(YInt(i), t[i][1], ChainParent(t[i][2], i))]

InitChain == \E t \in ChainTables : AfterResolve(OldTree(ChainDocs(t)), OldOrder(ChainDocs(t)))

SpecChain == InitChain /\ [][WriteLoop]_vars

\* the types of the chain epic, feature, task, subtask
ChainTypes == <<"epic", "feature", "task", "subtask">>

\* C14: the ancestor chain get_new_path computes for a node, which forms the
\* directories of its new path, never holds more than four new ids.
C14_ChainAtMostFour ==
    /\ Len(walk.hierarchy) <= Len(ChainTypes)
    /\ \A i \in SpecEntries :
          Len(migration_log[i].new_path) <= Len(<<SPECS>>) + Len(ChainTypes) + Len(<<SPEC_MD>>)

\* C19: the write loop writes the files of distinct nodes to distinct new
\* paths, so no write replaces the file written for another node.
C19_DistinctNewPaths ==
    \A i, j \in SpecEntries :
        i # j => migration_log[i].new_path # migration_log[j].new_path

(***************************************************************************)
(* The rewriting of bodies under a mapping of two pairs, where the old id  *)
(* of the second document is a word that is also a new id.                 *)
(***************************************************************************)
PairChars == {"1", "E", "0", " "}

PairBodies == UNION {[1..n -> PairChars] : n \in 0..MaxBody}

\* document 1 has id 1 and the body; document 2 has the id E01
PairDocs(body, type1, type2) ==
    <<[metadata |-> Metadata(YInt(1), type1, None, <<>>, None, <<>>, <<>>, <<>>), body |-> body],
      Plain(YStr(E01), type2, None)>>

InitPairs ==
    \E body \in PairBodies, type1, type2 \in {"epic", "feature"} :
        AfterResolve(OldTree(PairDocs(body, type1, type2)), OldOrder(PairDocs(body, type1, type2)))

SpecPairs == InitPairs /\ [][WriteLoop]_vars

\* the old ids of the mapping that stand at i as a whole token
TokensAt(map, s, i) == {k \in Range(map.keys) : Len(k) > 0 /\ WholeTokenAt(s, k, i)}

RECURSIVE SimultaneousFrom(_, _, _)
\* one simultaneous substitution over s, from position i: every whole token
\* that is an old id becomes its new id (new_id/spec.md when .md follows),
\* and the text put in is not looked at again
SimultaneousFrom(map, s, i) ==
    IF i > Len(s) THEN <<>>
    ELSE IF TokensAt(map, s, i) # {}
         THEN LET k == CHOOSE x \in TokensAt(map, s, i) : TRUE
              IN IF MatchAt(s, DOT_MD, i + Len(k))
                 THEN map.val[k] \o SLASH_SPEC_MD
                      \o SimultaneousFrom(map, s, i + Len(k) + Len(DOT_MD))
                 ELSE map.val[k] \o SimultaneousFrom(map, s, i + Len(k))
         ELSE <<s[i]>> \o SimultaneousFrom(map, s, i + 1)

\* C15: the body written is the simultaneous substitution of the source
\* body: a new id put in for one pair is not replaced again by another pair.
C15_SimultaneousSubstitution ==
    \A i \in SpecEntries :
        fs[migration_log[i].new_path].body =
            SimultaneousFrom(spec_map, specs_data.val[migration_log[i].old_id].body, 1)

(***************************************************************************)
(* The pipeline again: what perform_migration leaves of the files it       *)
(* wrote.                                                                  *)
(***************************************************************************)
\* perform_migration has returned without an exception
Migrated == pc \in {"log", "rollback"} \/ (pc = "exit" /\ result = "ok")

\* C18: after perform_migration has completed, every loaded node has a file
\* at its new path with its rewritten content, and the cleanup loop has
\* unlinked no file the write loop wrote.
C18_WrittenFilesSurviveCleanup ==
    Migrated =>
        \A i \in SpecEntries :
            /\ migration_log[i].new_path \in DOMAIN fs
            /\ fs[migration_log[i].new_path] =
                   UpdateSpecContent(specs_data, spec_map, unique_ids, migration_log[i].old_id)
            /\ migration_log[i].new_path \notin deleted

====
